---- MODULE Spec2Model ----
(***************************************************************************)
(* A model of the package repository shell (src/pkg_shell.py) and of the   *)
(* client that feeds it (src/archrepo/api.py).                             *)
(*                                                                         *)
(* Strings are sequences of one-character strings, so that the code's      *)
(* string operations (split, strip, glob, re.sub, sorted, os.path.join,    *)
(* base64) are computed as the code computes them.  The file system is a   *)
(* function from normalised absolute paths to file contents (byte          *)
(* sequences).  The external tools (repo-add, repo-remove, pacman, cp) are *)
(* modelled by their effect when they exit zero; whether they exit zero is *)
(* an input of each step.                                                  *)
(***************************************************************************)
EXTENDS Integers, Sequences, FiniteSets, TLC

-----------------------------------------------------------------------------
(* Characters and strings *)

\* the characters the model uses, in code point order (Python compares
\* strings by code point)
AsciiOrder ==
    << " ", "+", "-", ".", "/",
       "0", "1", "2", "3", "4", "5", "6", "7", "8", "9", "=",
       "A", "B", "C", "D", "E", "F", "G", "H", "I", "J", "K", "L", "M",
       "N", "O", "P", "Q", "R", "S", "T", "U", "V", "W", "X", "Y", "Z", "_",
       "a", "b", "c", "d", "e", "f", "g", "h", "i", "j", "k", "l", "m",
       "n", "o", "p", "q", "r", "s", "t", "u", "v", "w", "x", "y", "z" >>

Chars == { AsciiOrder[i] : i \in 1..Len(AsciiOrder) }

Ord == [ c \in Chars |-> CHOOSE i \in 1..Len(AsciiOrder) : AsciiOrder[i] = c ]

Digits == { "0", "1", "2", "3", "4", "5", "6", "7", "8", "9" }

\* \w of Python's re module, restricted to the model's characters
WordChars == Chars \ { " ", "+", "-", ".", "/", "=" }

Min(a, b) == IF a <= b THEN a ELSE b

\* Python evaluates an argument once, before the call.  Where a definition
\* below is written  CHOOSE r \in { F(v) : v \in { x } } : TRUE  it is F(x)
\* with x evaluated once and F applied to its value.

\* s[i:] and s[:n] of Python, 1-based: the part of s from position i on,
\* and the first n characters
From(s, i) == IF i > Len(s) THEN << >> ELSE SubSeq(s, i, Len(s))
Take(s, n) == SubSeq(s, 1, Min(n, Len(s)))

StartsWith(s, p) == Len(p) <= Len(s) /\ Take(s, Len(p)) = p
EndsWith(s, p)   == Len(p) <= Len(s) /\ From(s, Len(s) - Len(p) + 1) = p

\* a < b for Python strings: the first differing character decides, and a
\* proper prefix is smaller
StrLess(a, b) ==
    LET n    == Min(Len(a), Len(b))
        diff == { i \in 1..n : a[i] # b[i] }
    IN  IF diff = {} THEN Len(a) < Len(b)
        ELSE LET k == CHOOSE i \in diff : \A j \in diff : i <= j
             IN  Ord[a[k]] < Ord[b[k]]

\* the position of the first occurrence of character c in s, or 0
IndexOf(s, c) ==
    LET First(t) ==
            LET hits == { i \in 1..Len(t) : t[i] = c }
            IN  IF hits = {} THEN 0 ELSE CHOOSE i \in hits : \A j \in hits : i <= j
    IN  CHOOSE r \in { First(v) : v \in { s } } : TRUE

\* the position of the last occurrence of character c in s, or 0
LastIndexOf(s, c) ==
    LET Last(t) ==
            LET hits == { i \in 1..Len(t) : t[i] = c }
            IN  IF hits = {} THEN 0 ELSE CHOOSE i \in hits : \A j \in hits : i >= j
    IN  CHOOSE r \in { Last(v) : v \in { s } } : TRUE

\* s.split(c): the fields of s between the occurrences of character c
RECURSIVE SplitOn(_, _)
SplitOn(s, c) ==
    LET Fields(t) ==
            LET Cut(i) == IF i = 0 THEN << t >>
                          ELSE << Take(t, i - 1) >> \o SplitOn(From(t, i + 1), c)
            IN  CHOOSE r \in { Cut(v) : v \in { IndexOf(t, c) } } : TRUE
    IN  CHOOSE r \in { Fields(v) : v \in { s } } : TRUE

\* c.join(parts)
RECURSIVE JoinWith(_, _)
JoinWith(parts, c) ==
    LET Joined(ps) ==
            IF ps = << >> THEN << >>
            ELSE IF Len(ps) = 1 THEN ps[1]
            ELSE ps[1] \o << c >> \o JoinWith(Tail(ps), c)
    IN  CHOOSE r \in { Joined(v) : v \in { parts } } : TRUE

\* str.strip() for the one whitespace character of the model
RECURSIVE LStrip(_)
LStrip(s) ==
    LET Stripped(t) == IF t # << >> /\ t[1] = " " THEN LStrip(Tail(t)) ELSE t
    IN  CHOOSE r \in { Stripped(v) : v \in { s } } : TRUE
RECURSIVE RStrip(_)
RStrip(s) ==
    LET Stripped(t) ==
            IF t # << >> /\ t[Len(t)] = " " THEN RStrip(SubSeq(t, 1, Len(t) - 1)) ELSE t
    IN  CHOOSE r \in { Stripped(v) : v \in { s } } : TRUE
Strip(s) == RStrip(LStrip(s))

-----------------------------------------------------------------------------
(* Paths and the file system *)

\* the configured directories (src/pkg_shell.py:24-26 reads them from the
\* environment); home is the directory a login session starts in
repo_dir   == << "/", "r" >>
upload_dir == << "/", "h", "/", "u" >>
home_dir   == << "/", "h" >>
tmp_dir    == << "/", "t" >>

Directories == { << "/" >>, repo_dir, upload_dir, home_dir, tmp_dir }

IsAbs(p) == p # << >> /\ p[1] = "/"

\* os.path.join(a, b): an absolute b replaces a
PathJoin(a, b) ==
    IF IsAbs(b) THEN b
    ELSE IF a = << >> \/ a[Len(a)] = "/" THEN a \o b
    ELSE a \o << "/" >> \o b

\* os.path.basename(p): what follows the last slash
Basename(p) == From(p, LastIndexOf(p, "/") + 1)

\* the components of a path with "", "." dropped and ".." resolved, as the
\* kernel resolves them (no symbolic links in the model)
RECURSIVE FoldParts(_, _)
FoldParts(todo, done) ==
    LET Fold(td) ==
            LET t == td[1]
                d == td[2]
                c == Head(t)
            IN  IF t = << >> THEN d
                ELSE IF c = << >> \/ c = << "." >> THEN FoldParts(Tail(t), d)
                ELSE IF c = << ".", "." >>
                     THEN FoldParts(Tail(t),
                                    IF d = << >> THEN d
                                    ELSE SubSeq(d, 1, Len(d) - 1))
                ELSE FoldParts(Tail(t), Append(d, c))
    IN  CHOOSE r \in { Fold(v) : v \in { << todo, done >> } } : TRUE

\* the normalised absolute path that p names for a process whose working
\* directory is wd
Resolve(wd, p) ==
    LET full  == IF IsAbs(p) THEN p ELSE wd \o << "/" >> \o p
        parts == FoldParts(SplitOn(full, "/"), << >>)
    IN  << "/" >> \o JoinWith(parts, "/")

\* the directory part of a normalised absolute path
Dirname(p) ==
    LET i == LastIndexOf(p, "/")
    IN  IF i <= 1 THEN << "/" >> ELSE Take(p, i - 1)

\* os.path.isfile(p) in file system fs for a process in directory wd
IsFile(fs, wd, p) == p # << >> /\ Resolve(wd, p) \in DOMAIN fs

\* fs with file path (normalised) created or overwritten with content
WriteFile(fs, path, content) ==
    [ q \in DOMAIN fs \cup { path } |-> IF q = path THEN content ELSE fs[q] ]

\* fs without the files of set paths
DeleteFiles(fs, paths) == [ q \in DOMAIN fs \ paths |-> fs[q] ]

\* the names of the files directly in directory dir
Listdir(fs, dir) == { Basename(q) : q \in { x \in DOMAIN fs : Dirname(x) = dir } }

pkg_ext == << ".", "p", "k", "g", ".", "t", "a", "r", ".", "z", "s", "t" >>
sig_ext == << ".", "s", "i", "g" >>

\* fnmatch of a name against the pattern  pre*suf
GlobMatch(name, pre, suf) ==
    /\ Len(name) >= Len(pre) + Len(suf)
    /\ StartsWith(name, pre)
    /\ EndsWith(name, suf)

\* Path(dir).glob(pre + "*" + suf): the matching names in dir
Glob(fs, dir, pre, suf) == { n \in Listdir(fs, dir) : GlobMatch(n, pre, suf) }

-----------------------------------------------------------------------------
(* The repository index and the external tools *)

\* The index database is the set of package file names registered in it; the
\* tools change it only when they exit zero.

\* file name without the package extension
StripPkgExt(f) == IF EndsWith(f, pkg_ext) THEN Take(f, Len(f) - Len(pkg_ext)) ELSE f

\* the package name the index tool records for file f, which is named
\* <name>-<version>-<release>-<arch>.<ext>: all but the last three fields
EntryName(f) ==
    LET fields == SplitOn(StripPkgExt(f), "-")
        n      == Len(fields)
    IN  IF n >= 4 THEN JoinWith(SubSeq(fields, 1, n - 3), "-") ELSE StripPkgExt(f)

\* <version>-<release> of file f
EntryVersion(f) ==
    LET fields == SplitOn(StripPkgExt(f), "-")
        n      == Len(fields)
    IN  IF n >= 4 THEN fields[n - 2] \o << "-" >> \o fields[n - 1] ELSE << "0" >>

\* repo-add as a fault would have it: it exits 0 and registers nothing
RepoAddNothing(idx, f) == idx

\* repo-add <db> <file>, exit 0: the file is registered
RepoAdd(idx, f) == idx \cup { f }

\* repo-add -f <db> <files>, exit 0: the index holds exactly the given files
RepoRebuild(idx, fileset) == fileset

\* repo-remove <db> <name> finds an entry to remove
RepoHas(idx, name) == \E f \in idx : EntryName(f) = name

\* repo-remove <db> <name>, exit 0: the entries of that package are gone
RepoRemove(idx, name) == { f \in idx : EntryName(f) # name }

\* one line of "pacman -Syl repo" per index entry: repo <name> <version>
ListLine(f) ==
    << "r", "e", "p", "o", " " >> \o EntryName(f) \o << " " >> \o EntryVersion(f)

\* the stdout lines of "pacman -Syl repo", exit 0
QueryOutput(idx) == { ListLine(f) : f \in idx }

\* line.split(): the fields of line between its blanks
Fields(line) == SelectSeq(SplitOn(line, " "), LAMBDA f : f # << >>)

\* ArchRepoClient.list_packages of src/archrepo/api.py on the lines the
\* shell printed for list: the entries it returns
ArchRepoClient_list_packages(stdout) ==
    { [ name        |-> Fields(line)[2],
        version     |-> Fields(line)[3],
        description |-> JoinWith(From(Fields(line), 4), " ") ] :
      line \in { l \in stdout : /\ StartsWith(l, << "c", "u", "s", "t", "o", "m", " " >>)
                                /\ Len(Fields(l)) >= 4 } }

\* \b at position i of line (between line[i-1] and line[i])
WordBoundary(line, i) ==
    LET before == i > 1 /\ i - 1 <= Len(line) /\ line[i - 1] \in WordChars
        after  == i >= 1 /\ i <= Len(line) /\ line[i] \in WordChars
    IN  before # after

\* re.search(rf"\brepo\s+{re.escape(name)}\b", line)
RepoLineMatches(line, name) ==
    \E i \in 1..Len(line) :
        /\ WordBoundary(line, i)
        /\ Take(From(line, i), 4) = << "r", "e", "p", "o" >>
        /\ \E k \in 1..Len(line) :
              /\ i + 3 + k <= Len(line)
              /\ \A j \in (i + 4)..(i + 3 + k) : line[j] = " "
              /\ StartsWith(From(line, i + 4 + k), name)
              /\ WordBoundary(line, i + 4 + k + Len(name))

-----------------------------------------------------------------------------
(* The command handlers of the shell, as functions of the file system fs,   *)
(* the index idx, the working directory wd, the argument and the outcomes   *)
(* of the external programs and system calls the handler makes.  Each       *)
(* yields the new file system and index, the success flag the handler       *)
(* returns, the marker line it prints, for list and clean the listing and   *)
(* the count they print, for remove the number of files it deleted, the     *)
(* files named in "Warning: Failed to remove" lines, and for clean the file *)
(* sets it gave to repo-add -f, one for each call.                          *)

Outcome(fs, idx, ok, marker) ==
    [ fs |-> fs, idx |-> idx, ok |-> ok, marker |-> marker,
      listing |-> {}, count |-> 0, warned |-> {}, rebuilt |-> << >> ]

\* add_package as a fault would have it: a signature that cannot be copied
\* makes the command fail
add_package_sig_fatal(fs, idx, wd, pkg_path, cpOk, sigOk, toolOk) ==
    IF pkg_path = << >> THEN Outcome(fs, idx, FALSE, "No package specified")
    ELSE
    LET pkg_exists      == IsFile(fs, wd, pkg_path)
        pkg_file        == Basename(pkg_path)
        repo_pkg_path   == PathJoin(repo_dir, pkg_file)
        repo_pkg_exists == IsFile(fs, wd, repo_pkg_path)
        sig_path        == pkg_path \o sig_ext
        upload_sig_path == PathJoin(upload_dir, pkg_file \o sig_ext)
        repo_sig_path   == Resolve(wd, repo_dir \o << "/" >> \o pkg_file \o sig_ext)
        copied          == WriteFile(fs, Resolve(wd, repo_pkg_path),
                                     fs[Resolve(wd, pkg_path)])
        with_sig        ==
            IF IsFile(copied, wd, sig_path)
            THEN IF sigOk
                 THEN WriteFile(copied, repo_sig_path, copied[Resolve(wd, sig_path)])
                 ELSE copied
            ELSE IF IsFile(copied, wd, upload_sig_path)
            THEN IF sigOk
                 THEN WriteFile(copied, repo_sig_path,
                                copied[Resolve(wd, upload_sig_path)])
                 ELSE copied
            ELSE copied
        placed          == IF repo_pkg_exists THEN fs ELSE with_sig
        \* the signature whose copy failed, which is only warned about
        sig_warned      ==
            IF /\ ~repo_pkg_exists
               /\ ~sigOk
               /\ IsFile(copied, wd, sig_path) \/ IsFile(copied, wd, upload_sig_path)
            THEN { pkg_file \o sig_ext } ELSE {}
    IN  IF ~pkg_exists /\ ~repo_pkg_exists
        THEN Outcome(fs, idx, FALSE, "Package file not found")
        ELSE IF ~repo_pkg_exists /\ ~cpOk
        THEN Outcome(fs, idx, FALSE, "Failed to copy package to repository")
        ELSE IF sig_warned # {}
        THEN Outcome(copied, idx, FALSE, "Failed to copy signature file")
        ELSE IF toolOk
        THEN [ Outcome(placed, RepoAdd(idx, pkg_file), TRUE, "Package added successfully.")
                 EXCEPT !.warned = sig_warned ]
        ELSE [ Outcome(placed, idx, FALSE, "Error adding package to repository")
                 EXCEPT !.warned = sig_warned ]

\* add_package as a fault would have it: when repo-add fails, what was
\* copied is taken back
add_package_rolls_back(fs, idx, wd, pkg_path, cpOk, sigOk, toolOk) ==
    IF pkg_path = << >> THEN Outcome(fs, idx, FALSE, "No package specified")
    ELSE
    LET pkg_exists      == IsFile(fs, wd, pkg_path)
        pkg_file        == Basename(pkg_path)
        repo_pkg_path   == PathJoin(repo_dir, pkg_file)
        repo_pkg_exists == IsFile(fs, wd, repo_pkg_path)
        sig_path        == pkg_path \o sig_ext
        upload_sig_path == PathJoin(upload_dir, pkg_file \o sig_ext)
        repo_sig_path   == Resolve(wd, repo_dir \o << "/" >> \o pkg_file \o sig_ext)
        copied          == WriteFile(fs, Resolve(wd, repo_pkg_path),
                                     fs[Resolve(wd, pkg_path)])
        with_sig        ==
            IF IsFile(copied, wd, sig_path)
            THEN IF sigOk
                 THEN WriteFile(copied, repo_sig_path, copied[Resolve(wd, sig_path)])
                 ELSE copied
            ELSE IF IsFile(copied, wd, upload_sig_path)
            THEN IF sigOk
                 THEN WriteFile(copied, repo_sig_path,
                                copied[Resolve(wd, upload_sig_path)])
                 ELSE copied
            ELSE copied
        placed          == IF repo_pkg_exists THEN fs ELSE with_sig
        \* the signature whose copy failed, which is only warned about
        sig_warned      ==
            IF /\ ~repo_pkg_exists
               /\ ~sigOk
               /\ IsFile(copied, wd, sig_path) \/ IsFile(copied, wd, upload_sig_path)
            THEN { pkg_file \o sig_ext } ELSE {}
    IN  IF ~pkg_exists /\ ~repo_pkg_exists
        THEN Outcome(fs, idx, FALSE, "Package file not found")
        ELSE IF ~repo_pkg_exists /\ ~cpOk
        THEN Outcome(fs, idx, FALSE, "Failed to copy package to repository")
        ELSE IF toolOk
        THEN [ Outcome(placed, RepoAdd(idx, pkg_file), TRUE, "Package added successfully.")
                 EXCEPT !.warned = sig_warned ]
        ELSE Outcome(fs, idx, FALSE, "Error adding package to repository")

\* add_package as a fault would have it: the package and its signature
\* are copied whenever the file named is there, also over a copy that the
\* repository has
add_package_copies_again(fs, idx, wd, pkg_path, cpOk, sigOk, toolOk) ==
    IF pkg_path = << >> THEN Outcome(fs, idx, FALSE, "No package specified")
    ELSE
    LET pkg_exists      == IsFile(fs, wd, pkg_path)
        pkg_file        == Basename(pkg_path)
        repo_pkg_path   == PathJoin(repo_dir, pkg_file)
        repo_pkg_exists == IsFile(fs, wd, repo_pkg_path)
        sig_path        == pkg_path \o sig_ext
        upload_sig_path == PathJoin(upload_dir, pkg_file \o sig_ext)
        repo_sig_path   == Resolve(wd, repo_dir \o << "/" >> \o pkg_file \o sig_ext)
        copied          == WriteFile(fs, Resolve(wd, repo_pkg_path),
                                     fs[Resolve(wd, pkg_path)])
        with_sig        ==
            IF IsFile(copied, wd, sig_path) /\ sigOk
            THEN WriteFile(copied, repo_sig_path, copied[Resolve(wd, sig_path)])
            ELSE IF ~IsFile(copied, wd, sig_path) /\ IsFile(copied, wd, upload_sig_path)
                    /\ sigOk
            THEN WriteFile(copied, repo_sig_path, copied[Resolve(wd, upload_sig_path)])
            ELSE copied
        placed          == IF pkg_exists THEN with_sig ELSE fs
    IN  IF ~pkg_exists /\ ~repo_pkg_exists
        THEN Outcome(fs, idx, FALSE, "Package file not found")
        ELSE IF pkg_exists /\ ~cpOk
        THEN Outcome(fs, idx, FALSE, "Failed to copy package to repository")
        ELSE IF toolOk
        THEN Outcome(placed, RepoAdd(idx, pkg_file), TRUE, "Package added successfully.")
        ELSE Outcome(placed, idx, FALSE, "Error adding package to repository")

\* add_package(pkg_path); cpOk: cp of the package exits 0; sigOk: cp of the
\* signature exits 0; toolOk: repo-add exits 0
add_package(fs, idx, wd, pkg_path, cpOk, sigOk, toolOk) ==
    IF pkg_path = << >> THEN Outcome(fs, idx, FALSE, "No package specified")
    ELSE
    LET pkg_exists      == IsFile(fs, wd, pkg_path)
        pkg_file        == Basename(pkg_path)
        repo_pkg_path   == PathJoin(repo_dir, pkg_file)
        repo_pkg_exists == IsFile(fs, wd, repo_pkg_path)
        sig_path        == pkg_path \o sig_ext
        upload_sig_path == PathJoin(upload_dir, pkg_file \o sig_ext)
        repo_sig_path   == Resolve(wd, repo_dir \o << "/" >> \o pkg_file \o sig_ext)
        copied          == WriteFile(fs, Resolve(wd, repo_pkg_path),
                                     fs[Resolve(wd, pkg_path)])
        with_sig        ==
            IF IsFile(copied, wd, sig_path)
            THEN IF sigOk
                 THEN WriteFile(copied, repo_sig_path, copied[Resolve(wd, sig_path)])
                 ELSE copied
            ELSE IF IsFile(copied, wd, upload_sig_path)
            THEN IF sigOk
                 THEN WriteFile(copied, repo_sig_path,
                                copied[Resolve(wd, upload_sig_path)])
                 ELSE copied
            ELSE copied
        placed          == IF repo_pkg_exists THEN fs ELSE with_sig
        \* the signature whose copy failed, which is only warned about
        sig_warned      ==
            IF /\ ~repo_pkg_exists
               /\ ~sigOk
               /\ IsFile(copied, wd, sig_path) \/ IsFile(copied, wd, upload_sig_path)
            THEN { pkg_file \o sig_ext } ELSE {}
    IN  IF ~pkg_exists /\ ~repo_pkg_exists
        THEN Outcome(fs, idx, FALSE, "Package file not found")
        ELSE IF ~repo_pkg_exists /\ ~cpOk
        THEN Outcome(fs, idx, FALSE, "Failed to copy package to repository")
        ELSE IF toolOk
        THEN [ Outcome(placed, RepoAdd(idx, pkg_file), TRUE, "Package added successfully.")
                 EXCEPT !.warned = sig_warned ]
        ELSE [ Outcome(placed, idx, FALSE, "Error adding package to repository")
                 EXCEPT !.warned = sig_warned ]

\* Path.unlink for each of names in the repository directory; the files of
\* bad cannot be unlinked (unlink raises), the others are removed
UnlinkAll(fs, names, bad) ==
    DeleteFiles(fs, { PathJoin(repo_dir, n) : n \in names \ bad })

\* remove_package as a fault would have it: the signature files are not
\* collected for deletion
remove_package_keeps_sigs(fs, idx, pkg_name, queryOk, toolOk, bad) ==
    IF pkg_name = << >> THEN Outcome(fs, idx, FALSE, "No package specified")
    ELSE IF ~queryOk THEN Outcome(fs, idx, FALSE, "Error checking repository contents")
    ELSE IF ~\E line \in QueryOutput(idx) : RepoLineMatches(line, pkg_name)
    THEN Outcome(fs, idx, FALSE, "Package not found in repository")
    ELSE IF ~(toolOk /\ RepoHas(idx, pkg_name))
    THEN Outcome(fs, idx, FALSE, "Error removing package")
    ELSE
    LET pkg_files == Glob(fs, repo_dir, pkg_name \o << "-" >>, pkg_ext)
    IN  [ Outcome(UnlinkAll(fs, pkg_files, bad),
                  RepoRemove(idx, pkg_name), TRUE, "Package removed successfully.")
            EXCEPT !.warned = pkg_files \cap bad,
                   !.count = Cardinality(pkg_files \ bad) ]

\* remove_package as a fault would have it: after repo-remove, finding no
\* package file or failing to delete a file makes the command fail
remove_package_needs_files(fs, idx, pkg_name, queryOk, toolOk, bad) ==
    IF pkg_name = << >> THEN Outcome(fs, idx, FALSE, "No package specified")
    ELSE IF ~queryOk THEN Outcome(fs, idx, FALSE, "Error checking repository contents")
    ELSE IF ~\E line \in QueryOutput(idx) : RepoLineMatches(line, pkg_name)
    THEN Outcome(fs, idx, FALSE, "Package not found in repository")
    ELSE IF ~(toolOk /\ RepoHas(idx, pkg_name))
    THEN Outcome(fs, idx, FALSE, "Error removing package")
    ELSE
    LET pkg_files == Glob(fs, repo_dir, pkg_name \o << "-" >>, pkg_ext)
        sig_files == Glob(fs, repo_dir, pkg_name \o << "-" >>, pkg_ext \o sig_ext)
    IN  IF pkg_files = {} \/ (pkg_files \cup sig_files) \cap bad # {}
        THEN Outcome(UnlinkAll(fs, pkg_files \cup sig_files, bad),
                     RepoRemove(idx, pkg_name), FALSE, "Error removing package files")
        ELSE [ Outcome(UnlinkAll(fs, pkg_files \cup sig_files, bad),
                       RepoRemove(idx, pkg_name), TRUE, "Package removed successfully.")
                 EXCEPT !.warned = (pkg_files \cup sig_files) \cap bad,
                        !.count = Cardinality((pkg_files \cup sig_files) \ bad) ]

\* remove_package as a fault would have it: the files are deleted before
\* repo-remove runs
remove_package_files_first(fs, idx, pkg_name, queryOk, toolOk, bad) ==
    IF pkg_name = << >> THEN Outcome(fs, idx, FALSE, "No package specified")
    ELSE IF ~queryOk THEN Outcome(fs, idx, FALSE, "Error checking repository contents")
    ELSE IF ~\E line \in QueryOutput(idx) : RepoLineMatches(line, pkg_name)
    THEN Outcome(fs, idx, FALSE, "Package not found in repository")
    ELSE
    LET pkg_files == Glob(fs, repo_dir, pkg_name \o << "-" >>, pkg_ext)
        sig_files == Glob(fs, repo_dir, pkg_name \o << "-" >>, pkg_ext \o sig_ext)
        unlinked  == UnlinkAll(fs, pkg_files \cup sig_files, bad)
    IN  IF ~(toolOk /\ RepoHas(idx, pkg_name))
        THEN Outcome(unlinked, idx, FALSE, "Error removing package")
        ELSE [ Outcome(unlinked, RepoRemove(idx, pkg_name), TRUE,
                       "Package removed successfully.")
                 EXCEPT !.warned = (pkg_files \cup sig_files) \cap bad,
                        !.count = Cardinality((pkg_files \cup sig_files) \ bad) ]

\* remove_package(pkg_name); queryOk: pacman exits 0; toolOk: repo-remove
\* exits 0 when it finds the package; bad: the repository files whose unlink
\* raises.  The count is the length of removed_files.
remove_package(fs, idx, pkg_name, queryOk, toolOk, bad) ==
    IF pkg_name = << >> THEN Outcome(fs, idx, FALSE, "No package specified")
    ELSE IF ~queryOk THEN Outcome(fs, idx, FALSE, "Error checking repository contents")
    ELSE IF ~\E line \in QueryOutput(idx) : RepoLineMatches(line, pkg_name)
    THEN Outcome(fs, idx, FALSE, "Package not found in repository")
    ELSE IF ~(toolOk /\ RepoHas(idx, pkg_name))
    THEN Outcome(fs, idx, FALSE, "Error removing package")
    ELSE
    LET pkg_files == Glob(fs, repo_dir, pkg_name \o << "-" >>, pkg_ext)
        sig_files == Glob(fs, repo_dir, pkg_name \o << "-" >>, pkg_ext \o sig_ext)
    IN  [ Outcome(UnlinkAll(fs, pkg_files \cup sig_files, bad),
                  RepoRemove(idx, pkg_name), TRUE, "Package removed successfully.")
            EXCEPT !.warned = (pkg_files \cup sig_files) \cap bad,
                   !.count = Cardinality((pkg_files \cup sig_files) \ bad) ]

\* list_packages(); queryOk: pacman exits 0
list_packages(fs, idx, queryOk) ==
    IF ~queryOk THEN Outcome(fs, idx, FALSE, "Error listing packages")
    ELSE [ Outcome(fs, idx, TRUE, "Total packages")
             EXCEPT !.listing = QueryOutput(idx),
                    !.count = Cardinality(QueryOutput(idx)) ]


\* re.sub(r'-[0-9].*$', '', name): name cut at the first "-" that a digit
\* follows
CleanName(name) ==
    LET hits == { i \in 1..(Len(name) - 1) : name[i] = "-" /\ name[i + 1] \in Digits }
    IN  IF hits = {} THEN name
        ELSE Take(name, (CHOOSE i \in hits : \A j \in hits : i <= j) - 1)

\* the last element of sorted(S)
MaxStr(S) == CHOOSE m \in S : \A x \in S : x = m \/ StrLess(x, m)

\* the round of the loop as a fault would have it: of several versions
\* only the first of the sorted list is removed (versions[:1])
CleanGroupOldestOnly(fs, pkg_name, bad) ==
    LET versions == Glob(fs, repo_dir, pkg_name \o << "-" >>, pkg_ext)
        old      == IF Cardinality(versions) > 1
                    THEN { CHOOSE m \in versions :
                             \A x \in versions : x = m \/ StrLess(m, x) }
                    ELSE {}
        gone     == old \ bad
        sigFails == { v \in gone : /\ IsFile(fs, repo_dir, PathJoin(repo_dir, v \o sig_ext))
                                   /\ (v \o sig_ext) \in bad }
        sigs     == { v \o sig_ext : v \in gone \ sigFails }
    IN  [ fs     |-> UnlinkAll(fs, gone \cup sigs, {}),
          count  |-> Cardinality(gone \ sigFails),
          warned |-> (old \cap bad) \cup sigFails ]

\* one round of the loop over pkg_names in clean_repo, for pkg_name: the
\* file system afterwards and the number added to cleaned.  An old version
\* whose unlink raises is skipped; one whose signature's unlink raises is
\* deleted but not counted.
CleanGroup(fs, pkg_name, bad) ==
    LET versions == Glob(fs, repo_dir, pkg_name \o << "-" >>, pkg_ext)
        old      == IF Cardinality(versions) > 1
                    THEN versions \ { MaxStr(versions) } ELSE {}
        gone     == old \ bad
        sigFails == { v \in gone : /\ IsFile(fs, repo_dir, PathJoin(repo_dir, v \o sig_ext))
                                   /\ (v \o sig_ext) \in bad }
        sigs     == { v \o sig_ext : v \in gone \ sigFails }
    IN  [ fs     |-> UnlinkAll(fs, gone \cup sigs, {}),
          count  |-> Cardinality(gone \ sigFails),
          warned |-> (old \cap bad) \cup sigFails ]

\* the loop as a fault would have it: a package name with a single
\* version ends the loop (break) instead of being passed over
RECURSIVE CleanGroupsStopAtSingle(_, _, _, _, _)
CleanGroupsStopAtSingle(fs, order, bad, cleaned, warned) ==
    IF order = << >> THEN [ fs |-> fs, count |-> cleaned, warned |-> warned ]
    ELSE IF Cardinality(Glob(fs, repo_dir, Head(order) \o << "-" >>, pkg_ext)) <= 1
    THEN [ fs |-> fs, count |-> cleaned, warned |-> warned ]
    ELSE LET g == CleanGroup(fs, Head(order), bad)
         IN  CleanGroupsStopAtSingle(g.fs, Tail(order), bad, cleaned + g.count,
                                     warned \cup g.warned)

\* the loop over pkg_names, taken in the order given
RECURSIVE CleanGroups(_, _, _, _, _)
CleanGroups(fs, order, bad, cleaned, warned) ==
    IF order = << >> THEN [ fs |-> fs, count |-> cleaned, warned |-> warned ]
    ELSE LET g == CleanGroup(fs, Head(order), bad)
         IN  CleanGroups(g.fs, Tail(order), bad, cleaned + g.count,
                         warned \cup g.warned)

\* the package names clean_repo collects from the repository directory
CleanNames(fs) == { CleanName(f) : f \in Glob(fs, repo_dir, << >>, pkg_ext) }

\* the orders in which a Python set with the elements of S can be iterated
Orders(S) ==
    { o \in [ 1..Cardinality(S) -> S ] : \A i, j \in DOMAIN o : i # j => o[i] # o[j] }

\* clean_repo as a fault would have it: the index is rebuilt only when a
\* file was deleted, and from the files listed before the deletions
clean_repo_when_deleted(fs, idx, order, bad, toolOk) ==
    LET done      == CleanGroups(fs, order, bad, 0, {})
        pkg_files == Glob(fs, repo_dir, << >>, pkg_ext)
    IN  IF done.count = 0
        THEN [ Outcome(done.fs, idx, TRUE, "Repository cleaned successfully.")
                 EXCEPT !.warned = done.warned ]
        ELSE IF toolOk
        THEN [ Outcome(done.fs, RepoRebuild(idx, pkg_files), TRUE,
                       "Repository cleaned successfully.")
                 EXCEPT !.count = done.count, !.warned = done.warned,
                        !.rebuilt = << pkg_files >> ]
        ELSE [ Outcome(done.fs, idx, FALSE, "Error cleaning repository")
                 EXCEPT !.count = done.count, !.warned = done.warned,
                        !.rebuilt = << pkg_files >> ]

\* clean_repo(); order: the iteration order of the set pkg_names; bad: the
\* repository files whose unlink raises; toolOk: repo-add -f exits 0
clean_repo(fs, idx, order, bad, toolOk) ==
    LET done      == CleanGroups(fs, order, bad, 0, {})
        pkg_files == Glob(done.fs, repo_dir, << >>, pkg_ext)
    IN  IF toolOk
        THEN [ Outcome(done.fs, RepoRebuild(idx, pkg_files), TRUE,
                       "Repository cleaned successfully.")
                 EXCEPT !.count = done.count, !.warned = done.warned,
                        !.rebuilt = << pkg_files >> ]
        ELSE [ Outcome(done.fs, idx, FALSE, "Error cleaning repository")
                 EXCEPT !.count = done.count, !.warned = done.warned,
                        !.rebuilt = << pkg_files >> ]

\* show_status as a fault would have it: the output of du is kept in a
\* file in the repository directory
show_status_keeps_output(fs, idx, du, df) ==
    LET kept == (PathJoin(repo_dir, << "d", "u" >>) :> << >>) @@ fs
    IN  IF du \in { "missing", "short" } \/ df \in { "missing", "short" }
        THEN Outcome(kept, idx, FALSE, "Error getting repository status")
        ELSE [ Outcome(kept, idx, TRUE, "Repository Status:")
                 EXCEPT !.count = Cardinality(Glob(fs, repo_dir, << >>, pkg_ext)) ]

\* show_status(); each probe is "ok", "fail" (exits non-zero), "missing" (the
\* program cannot be started) or "short" (output with too few fields)
show_status(fs, idx, du, df) ==
    IF du \in { "missing", "short" } \/ df \in { "missing", "short" }
    THEN Outcome(fs, idx, FALSE, "Error getting repository status")
    ELSE [ Outcome(fs, idx, TRUE, "Repository Status:")
             EXCEPT !.count = Cardinality(Glob(fs, repo_dir, << >>, pkg_ext)) ]

-----------------------------------------------------------------------------
(* base64, as Python's base64.b64encode and base64.b64decode compute it *)

B64Alphabet ==
    << "A", "B", "C", "D", "E", "F", "G", "H", "I", "J", "K", "L", "M",
       "N", "O", "P", "Q", "R", "S", "T", "U", "V", "W", "X", "Y", "Z",
       "a", "b", "c", "d", "e", "f", "g", "h", "i", "j", "k", "l", "m",
       "n", "o", "p", "q", "r", "s", "t", "u", "v", "w", "x", "y", "z",
       "0", "1", "2", "3", "4", "5", "6", "7", "8", "9", "+", "/" >>

B64Chars == { B64Alphabet[i] : i \in 1..64 }

\* the six-bit value of an alphabet character
B64Val == [ c \in B64Chars |-> (CHOOSE i \in 1..64 : B64Alphabet[i] = c) - 1 ]

\* base64.b64encode(b): three bytes become four characters, a last group of
\* one or two bytes is padded with "="
RECURSIVE B64Encode(_)
B64Encode(b) ==
    IF b = << >> THEN << >>
    ELSE IF Len(b) = 1
    THEN << B64Alphabet[(b[1] \div 4) + 1], B64Alphabet[((b[1] % 4) * 16) + 1],
            "=", "=" >>
    ELSE IF Len(b) = 2
    THEN << B64Alphabet[(b[1] \div 4) + 1],
            B64Alphabet[((b[1] % 4) * 16 + b[2] \div 16) + 1],
            B64Alphabet[((b[2] % 16) * 4) + 1], "=" >>
    ELSE << B64Alphabet[(b[1] \div 4) + 1],
            B64Alphabet[((b[1] % 4) * 16 + b[2] \div 16) + 1],
            B64Alphabet[((b[2] % 16) * 4 + b[3] \div 64) + 1],
            B64Alphabet[(b[3] % 64) + 1] >> \o B64Encode(From(b, 4))

\* binascii.a2b_base64 in its default, non-strict mode: characters outside
\* the alphabet are skipped, a complete padding ends the data, and data that
\* ends inside a group of four is an error.  The state of its loop:
A2bStart == [ quad_pos |-> 0, leftchar |-> 0, pads |-> 0, out |-> << >>, done |-> FALSE ]

\* one round of the loop, on the character c
A2bStep(st, c) ==
    IF st.done THEN st
    ELSE IF c = "="
    THEN IF st.quad_pos >= 2 /\ st.quad_pos + st.pads + 1 >= 4
         THEN [ st EXCEPT !.done = TRUE ]
         ELSE [ st EXCEPT !.pads = IF st.quad_pos >= 2 THEN st.pads + 1 ELSE st.pads ]
    ELSE IF c \notin B64Chars THEN st
    ELSE LET v == B64Val[c]
         IN  IF st.quad_pos = 0
             THEN [ st EXCEPT !.quad_pos = 1, !.leftchar = v, !.pads = 0 ]
             ELSE IF st.quad_pos = 1
             THEN [ st EXCEPT !.quad_pos = 2, !.leftchar = v % 16, !.pads = 0,
                              !.out = Append(st.out, (st.leftchar * 4 + v \div 16) % 256) ]
             ELSE IF st.quad_pos = 2
             THEN [ st EXCEPT !.quad_pos = 3, !.leftchar = v % 4, !.pads = 0,
                              !.out = Append(st.out, (st.leftchar * 16 + v \div 4) % 256) ]
             ELSE [ st EXCEPT !.quad_pos = 0, !.leftchar = 0, !.pads = 0,
                              !.out = Append(st.out, (st.leftchar * 64 + v) % 256) ]

\* the loop over the characters lo..hi of s, from the state st
RECURSIVE A2bScan(_, _, _, _)
A2bScan(s, lo, hi, st) ==
    LET Scan(t) ==
            IF t.done \/ lo > hi THEN t
            ELSE IF lo = hi THEN A2bStep(t, s[lo])
            ELSE LET mid == (lo + hi) \div 2
                 IN  A2bScan(s, mid + 1, hi, A2bScan(s, lo, mid, t))
    IN  CHOOSE r \in { Scan(v) : v \in { st } } : TRUE

A2bBase64(s) ==
    LET Result(st) ==
            IF st.done \/ st.quad_pos = 0 THEN [ ok |-> TRUE, bytes |-> st.out ]
            ELSE [ ok |-> FALSE, bytes |-> << >> ]
        Decoded(t) == CHOOSE r \in { Result(v) : v \in { A2bScan(t, 1, Len(t), A2bStart) } } : TRUE
    IN  CHOOSE r \in { Decoded(v) : v \in { s } } : TRUE

\* base64.b64decode(s)
B64Decode(s) == A2bBase64(s)

\* the lines of the temporary file, as read back: each line followed by a
\* newline
RECURSIVE JoinLines(_)
JoinLines(lines) ==
    LET Joined(ls) ==
            IF ls = << >> THEN << >>
            ELSE Head(ls) \o << "\n" >> \o JoinLines(Tail(ls))
    IN  CHOOSE r \in { Joined(v) : v \in { lines } } : TRUE

-----------------------------------------------------------------------------
(* The client's upload encoding (src/archrepo/api.py) *)

chunk_size == 76

\* encoded_data[i:i+chunk_size] for i in range(0, len(encoded_data), chunk_size)
\* the chunking as a fault would have it: range(0, len(s) - n + 1, n), which
\* drops a last line shorter than n
RECURSIVE ChunksFullOnly(_, _)
ChunksFullOnly(s, n) ==
    IF Len(s) < n THEN << >>
    ELSE << Take(s, n) >> \o ChunksFullOnly(From(s, n + 1), n)

\* the chunking as another fault would have it: range and slice use
\* chunk_size - 1, a width that is no multiple of four
RECURSIVE ChunksNarrow(_, _)
ChunksNarrow(s, n) ==
    IF s = << >> THEN << >>
    ELSE << Take(s, n - 1) >> \o ChunksNarrow(From(s, n), n)

RECURSIVE Chunks(_, _)
Chunks(s, n) ==
    IF s = << >> THEN << >> ELSE << Take(s, n) >> \o Chunks(From(s, n + 1), n)

HexDigits ==
    << "0", "1", "2", "3", "4", "5", "6", "7", "8", "9", "a", "b", "c", "d", "e", "f" >>

RECURSIVE SumRange(_, _, _)
SumRange(b, lo, hi) ==
    IF lo > hi THEN 0
    ELSE IF lo = hi THEN b[lo]
    ELSE SumRange(b, lo, (lo + hi) \div 2) + SumRange(b, (lo + hi) \div 2 + 1, hi)

SumBytes(b) == SumRange(b, 1, Len(b))

\* hashlib.sha512(b).hexdigest(): a hexadecimal digest of the bytes.  The
\* model's digest is two hexadecimal digits of a checksum instead of 128 of
\* SHA-512; the shell of src/pkg_shell.py never computes a digest.
Sha512Hex(b) ==
    LET v == (SumBytes(b) + 7 * Len(b) + 1) % 256
    IN  << HexDigits[(v \div 16) + 1], HexDigits[(v % 16) + 1] >>

EOFLine == << "E", "O", "F" >>
ReceiveWord == << "r", "e", "c", "e", "i", "v", "e" >>

\* _encode_and_send_file: the receive command with the hash, the base64
\* text in lines of chunk_size characters, and the EOF line
EncodeAndSendFile(file_data, filename) ==
    << ReceiveWord \o << " " >> \o filename \o << " " >> \o Sha512Hex(file_data) >>
    \o Chunks(B64Encode(file_data), chunk_size)
    \o << EOFLine >>


\* the path receive_file writes for argument filename
OutputPath(wd, filename) == Resolve(wd, PathJoin(upload_dir, filename))

\* the files in the directory of temporary files
TempFiles(fs) == { q \in DOMAIN fs : Dirname(q) = tmp_dir }

\* tempfile.NamedTemporaryFile: a name that no file has yet
TempName(fs) ==
    LET free == { k \in 0..9 : PathJoin(tmp_dir, << AsciiOrder[6 + k] >>) \notin DOMAIN fs }
    IN  PathJoin(tmp_dir, << AsciiOrder[6 + (CHOOSE k \in free : \A j \in free : k <= j)] >>)

\* the finally clause of receive_file as a fault would have it: the
\* temporary file is unlinked only after the upload was stored
ReceiveCleanupOnSuccess(o, b64file_path, text, unlinkOk) ==
    IF unlinkOk /\ o.ok THEN o
    ELSE [ o EXCEPT !.fs = WriteFile(o.fs, b64file_path, text),
                    !.warned = IF unlinkOk THEN {} ELSE { b64file_path } ]

\* the finally clause of receive_file, after outcome o was reached: the
\* temporary file with the base64 text is unlinked; if that raises, the
\* file stays and a warning is logged
ReceiveCleanup(o, b64file_path, text, unlinkOk) ==
    IF unlinkOk THEN o
    ELSE [ o EXCEPT !.fs = WriteFile(o.fs, b64file_path, text),
                    !.warned = { b64file_path } ]

\* receive_file(filename); data: the lines read before the EOF line or the
\* end of the input; openOk: the output file can be opened for writing; du:
\* the size probe, "ok", "fail" (exits non-zero) or "missing"; unlinkOk: the
\* temporary file can be unlinked.  The output file is opened, and so
\* created or truncated, before the data is decoded; a decode error leaves
\* the with-block as an exception that the handler's last except clause
\* reports.
receive_file(fs, idx, wd, filename, data, openOk, du, unlinkOk) ==
    IF filename = << >> THEN Outcome(fs, idx, FALSE, "No filename specified")
    ELSE
    LET b64file_path == TempName(fs)
        output_path == OutputPath(wd, filename)
        writable    == /\ openOk
                       /\ output_path \notin Directories
                       /\ Dirname(output_path) \in Directories
        opened      == WriteFile(fs, output_path, << >>)
        decoded     == B64Decode(JoinLines(data))
        written     == WriteFile(fs, output_path, decoded.bytes)
        returned    ==
            IF ~writable THEN Outcome(fs, idx, FALSE, "File I/O error")
            ELSE IF ~decoded.ok THEN Outcome(opened, idx, FALSE, "Error receiving file")
            ELSE IF du = "missing" THEN Outcome(written, idx, FALSE, "Error receiving file")
            ELSE IF EndsWith(filename, sig_ext)
            THEN Outcome(written, idx, TRUE, "Signature file received successfully")
            ELSE Outcome(written, idx, TRUE, "File received successfully")
    IN  ReceiveCleanup(returned, b64file_path, JoinLines(data), unlinkOk)

\* send_file(filename); du: the size probe is "ok", "fail" (exits non-zero)
\* or "missing" (the program cannot be started); readOk: the file can be
\* opened and read.  The file is looked for in the repository directory,
\* the staging directory and then as the path given.
send_file(fs, idx, wd, filename, du, readOk) ==
    IF filename = << >> THEN Outcome(fs, idx, FALSE, "No filename specified")
    ELSE
    LET repo_path == PathJoin(repo_dir, filename)
        found     == \/ IsFile(fs, wd, repo_path)
                     \/ IsFile(fs, wd, PathJoin(upload_dir, filename))
                     \/ IsFile(fs, wd, filename)
    IN  IF ~found THEN Outcome(fs, idx, FALSE, "File not found")
        ELSE IF du = "fail" THEN Outcome(fs, idx, FALSE, "Error getting file size")
        ELSE IF du = "missing" THEN Outcome(fs, idx, FALSE, "Error sending file")
        ELSE IF ~readOk THEN Outcome(fs, idx, FALSE, "File I/O error")
        ELSE Outcome(fs, idx, TRUE, "-----END FILE DATA-----")

\* show_recent_errors(); log: the error log is "empty" (absent or of size
\* 0), "readable" or "unreadable" (reading it raises)
show_recent_errors(fs, idx, log) ==
    IF log = "empty" THEN Outcome(fs, idx, TRUE, "No errors logged yet.")
    ELSE IF log = "readable" THEN Outcome(fs, idx, TRUE, "Recent errors")
    ELSE Outcome(fs, idx, FALSE, "Failed to read error log")

-----------------------------------------------------------------------------
(* The bounded universe of inputs *)

\* the number of versions of package foo
NumVersions == 2
\* the number of command lines or upload blocks the client sends in a session
MaxSends == 2
\* the greatest length of the short upload payloads
MaxPayloadLen == 3

foo     == << "f", "o", "o" >>
foo_bar == << "f", "o", "o", "-", "b", "a", "r" >>

DigitOf(i) == AsciiOrder[6 + i]

\* <name>-1.<i>-1-any.pkg.tar.zst
PkgFileName(name, i) ==
    name \o << "-", "1", ".", DigitOf(i), "-", "1", "-", "a", "n", "y" >> \o pkg_ext

PkgFiles ==
    { PkgFileName(foo, i) : i \in 0..(NumVersions - 1) } \cup { PkgFileName(foo_bar, 0) }

SigFiles == { f \o sig_ext : f \in PkgFiles }

PkgNames == { foo, foo_bar }

\* the file the clients upload
Upfile == PkgFileName(foo, 0)

\* file contents
PayloadHi  == << 104, 105 >>
PayloadSig == << 83 >>
NoPayload  == << 256 >>

AddWord    == << "a", "d", "d" >>
RemoveWord == << "r", "e", "m", "o", "v", "e" >>
ListWord   == << "l", "i", "s", "t" >>
CleanWord  == << "c", "l", "e", "a", "n" >>
StatusWord == << "s", "t", "a", "t", "u", "s" >>
HelpWord   == << "h", "e", "l", "p" >>
ExitWord   == << "e", "x", "i", "t" >>
QuitWord   == << "q", "u", "i", "t" >>
LogoutWord == << "l", "o", "g", "o", "u", "t" >>
SendWord   == << "s", "e", "n", "d" >>
ErrorsWord == << "e", "r", "r", "o", "r", "s" >>
FrobWord   == << "f", "r", "o", "b" >>

Cmd(verb, args) == verb \o << " " >> \o args

\* what the client sends at once: lines, whether the stream ends after them,
\* and, for an upload, the payload and the file name it encoded
Sending(lines, close, payload, filename) ==
    [ lines |-> lines, close |-> close, payload |-> payload, filename |-> filename ]

\* receive <filename>, base64 lines, EOF: as src/archrepo.py and
\* src/pkgupload.py send it
PlainUpload(file_data, filename) ==
    << Cmd(ReceiveWord, filename) >>
    \o Chunks(B64Encode(file_data), chunk_size)
    \o << EOFLine >>

\* a digest that is not the payload's
WrongHash(file_data) ==
    LET h == Sha512Hex(file_data)
    IN  << h[1], IF h[2] = "0" THEN "1" ELSE "0" >>

\* the repository commands
RepoCommands ==
    { Cmd(AddWord, PathJoin(upload_dir, Upfile)), Cmd(AddWord, PkgFileName(foo_bar, 0)),
      Cmd(RemoveWord, foo), Cmd(RemoveWord, foo_bar), ListWord, CleanWord }

\* the other single command lines
OtherCommands ==
    { Cmd(AddWord, Upfile), Cmd(AddWord, << "n", "o" >>), AddWord, RemoveWord,
      StatusWord, HelpWord, ExitWord, QuitWord, FrobWord, << >> }

\* the uploads
Uploads ==
    { Sending(PlainUpload(PayloadHi, Upfile), FALSE, PayloadHi, Upfile),
      Sending(PlainUpload(PayloadSig, Upfile \o sig_ext), FALSE, PayloadSig,
              Upfile \o sig_ext),
      Sending(EncodeAndSendFile(PayloadHi, Upfile), FALSE, PayloadHi, Upfile),
      \* an expected hash that is not the payload's digest
      Sending(<< Cmd(ReceiveWord, Cmd(Upfile, WrongHash(PayloadHi))) >>
                 \o Chunks(B64Encode(PayloadHi), chunk_size) \o << EOFLine >>,
              FALSE, PayloadHi, Upfile),
      \* data that is no base64 text
      Sending(<< Cmd(ReceiveWord, Upfile), << "a" >>, EOFLine >>, FALSE, NoPayload, Upfile),
      \* a receive without file name, followed by a data block
      Sending(<< ReceiveWord, << "a", "G", "k", "=" >>, EOFLine >>, FALSE, NoPayload, << >>),
      \* a stream that ends inside the data block
      Sending(<< Cmd(ReceiveWord, Upfile), << "a", "G", "k", "=" >> >>, TRUE, NoPayload,
              Upfile),
      \* the end of the stream
      Sending(<< >>, TRUE, NoPayload, << >>) }

\* what a session's client can send next
Inputs ==
    { Sending(<< l >>, FALSE, NoPayload, << >>) : l \in RepoCommands \cup OtherCommands }
    \cup Uploads

\* the repository files whose unlink can fail
FailCandidates == { PkgFileName(foo, 0), PkgFileName(foo, 0) \o sig_ext }
BadSets == SUBSET FailCandidates

\* the bytes the short payloads are made of
ByteSample == { 0, 104, 255 }

\* the lengths of the long payloads: around one and two full lines of
\* base64 text (57 bytes encode to 76 characters)
LongLens == { 56, 57, 58, 59, 113, 114, 115 }

LongPayload(n) == [ i \in 1..n |-> (i * 37) % 256 ]

\* payloads whose base64 text holds the letters EOF: at the start of the
\* only line (EOFA), at the start of a shorter last line, and at the end of
\* the text where it fills three lines (168 + 3 bytes encode to 228
\* characters, the last four of them AEOF)
SentinelPayloads ==
    { << 16, 225, 64 >>,
      LongPayload(57) \o << 16, 225, 64 >>,
      LongPayload(168) \o << 0, 67, 133 >> }

\* the payloads of the upload round trip
CodecPayloads ==
    UNION { [ 1..n -> ByteSample ] : n \in 0..MaxPayloadLen }
    \cup { LongPayload(n) : n \in LongLens }
    \cup SentinelPayloads

-----------------------------------------------------------------------------
(* The session: the shell reading its input stream *)

VARIABLES
    files,      \* the file system: normalised absolute path -> bytes
    index,      \* the repository index: the registered package file names
    cwd,        \* the working directory the shell was started in
    mode,       \* "interactive" (main_loop) or "stdin" (process_stdin)
    stdin,      \* the lines sent to the shell and not yet read
    closed,     \* the input stream ends after the lines of stdin
    running,    \* the shell's loop has not ended
    sends,      \* how many times the client has sent something
    sent,       \* what the client sent last
    last,       \* the last command the shell executed and what it returned
    added,      \* the package names added with success since the last
                \* remove of that name and the last clean
    removed,    \* the package names removed with success since the last
                \* add of that name and the last clean
    history     \* the command history file: the lines logged, oldest first
                \* (each without the time stamp written before it)

vars == << files, index, cwd, mode, stdin, closed, running, sends, sent, last,
           added, removed, history >>

NoCommand ==
    [ verb |-> "none", args |-> << >>, ok |-> FALSE, marker |-> "", listing |-> {},
      count |-> 0, warned |-> {}, rebuilt |-> << >>, path |-> << >> ]

\* the files of a directory: the package files of S, those of T signed
DirWith(dir, S, T) ==
    [ q \in { PathJoin(dir, f) : f \in S } \cup { PathJoin(dir, f \o sig_ext) : f \in T }
        |-> IF EndsWith(q, sig_ext) THEN PayloadSig ELSE PayloadHi ]

\* what every session starts with
InitSession ==
    /\ stdin = << >>
    /\ closed = FALSE
    /\ running = TRUE
    /\ sends = 0
    /\ sent = Sending(<< >>, FALSE, NoPayload, << >>)
    /\ last = NoCommand
    /\ added = {}
    /\ removed = {}
    /\ history = << >>

\* A session starts on a repository that earlier sessions filled: no
\* package files or all of them, all of them signed or none, all of them
\* registered; the staging directory is empty.  (The repository sessions
\* below start from every set of package files.)
Init ==
    /\ \E S \in { {}, PkgFiles } : \E T \in { {}, S } :
          /\ files = DirWith(repo_dir, S, T)
          /\ index = S
    /\ cwd \in { home_dir, upload_dir }
    /\ mode \in { "interactive", "stdin" }
    /\ InitSession

\* the client writes one of ins to the stream (_run_ssh_interactive hands
\* the shell its whole input; the shell reads it line by line, so what
\* matters is the order of the lines)
Send(ins) ==
    /\ running /\ stdin = << >> /\ ~closed /\ sends < MaxSends
    /\ \E s \in ins :
          /\ stdin' = s.lines
          /\ closed' = s.close
          /\ sent' = s
    /\ sends' = sends + 1
    /\ UNCHANGED << files, index, cwd, mode, running, last, added, removed, history >>

ClientSend == Send(Inputs)

\* input("pkgrepo> ").strip() and line.strip()
CmdInput == Strip(Head(stdin))

\* parts = cmd_input.split(maxsplit=1); cmd = parts[0]
VerbOf(ci) == IF IndexOf(ci, " ") = 0 THEN ci ELSE Take(ci, IndexOf(ci, " ") - 1)

\* args = parts[1] if len(parts) > 1 else ""
ArgsOf(ci) == IF IndexOf(ci, " ") = 0 THEN << >> ELSE LStrip(From(ci, IndexOf(ci, " ")))

\* the line is skipped: empty, or in process_stdin the line "exit"
Skipped == CmdInput = << >> \/ (mode = "stdin" /\ CmdInput = ExitWord)

\* the next line is a command with this verb
Dispatched(verb) ==
    /\ running /\ stdin # << >>
    /\ ~Skipped
    /\ VerbOf(CmdInput) = verb

\* log_command can be called for the line: main_loop logs every command
\* but exit, process_stdin logs none; its open of the history file can fail
LogOutcomes ==
    IF mode = "interactive" /\ VerbOf(CmdInput) # ExitWord THEN BOOLEAN ELSE { TRUE }

\* the history file after the line has been dispatched
Logged(logOk) ==
    IF mode = "interactive" /\ VerbOf(CmdInput) # ExitWord /\ logOk
    THEN Append(history, CmdInput)
    ELSE history

\* the return to the loop as a fault would have it: a handler's failure
\* ends the loop
ReturnedEndsOnFailure(name, o, path, rest) ==
    /\ \E logOk \in LogOutcomes : history' = Logged(logOk)
    /\ files' = o.fs
    /\ index' = o.idx
    /\ last' = [ verb |-> name, args |-> ArgsOf(CmdInput), ok |-> o.ok,
                 marker |-> o.marker, listing |-> o.listing, count |-> o.count,
                 warned |-> o.warned, rebuilt |-> o.rebuilt, path |-> path ]
    /\ stdin' = rest
    /\ running' = o.ok
    /\ UNCHANGED << cwd, mode, closed, sends, sent >>

\* the command returns to the loop: o is the handler's outcome, path the
\* file a receive writes, rest the lines left unread
Returned(name, o, path, rest) ==
    /\ \E logOk \in LogOutcomes : history' = Logged(logOk)
    /\ files' = o.fs
    /\ index' = o.idx
    /\ last' = [ verb |-> name, args |-> ArgsOf(CmdInput), ok |-> o.ok,
                 marker |-> o.marker, listing |-> o.listing, count |-> o.count,
                 warned |-> o.warned, rebuilt |-> o.rebuilt, path |-> path ]
    /\ stdin' = rest
    /\ UNCHANGED << cwd, mode, closed, running, sends, sent >>

SkipLine ==
    /\ running /\ stdin # << >> /\ Skipped
    /\ stdin' = Tail(stdin)
    /\ UNCHANGED << files, index, cwd, mode, closed, running, sends, sent, last,
                    added, removed, history >>

Add ==
    /\ Dispatched(AddWord)
    /\ \E cpOk, sigOk, toolOk \in BOOLEAN :
          LET o == add_package(files, index, cwd, ArgsOf(CmdInput), cpOk, sigOk, toolOk)
              n == EntryName(Basename(ArgsOf(CmdInput)))
          IN  /\ Returned("add", o, << >>, Tail(stdin))
              /\ added' = IF o.ok THEN added \cup { n } ELSE added
              /\ removed' = IF o.ok THEN removed \ { n } ELSE removed

Remove ==
    /\ Dispatched(RemoveWord)
    /\ \E queryOk, toolOk \in BOOLEAN : \E bad \in BadSets :
          LET o == remove_package(files, index, ArgsOf(CmdInput), queryOk, toolOk, bad)
              n == ArgsOf(CmdInput)
          IN  /\ Returned("remove", o, << >>, Tail(stdin))
              /\ added' = IF o.ok THEN added \ { n } ELSE added
              /\ removed' = IF o.ok THEN removed \cup { n } ELSE removed

List ==
    /\ Dispatched(ListWord)
    /\ \E queryOk \in BOOLEAN :
          Returned("list", list_packages(files, index, queryOk), << >>, Tail(stdin))
    /\ UNCHANGED << added, removed >>

Clean ==
    /\ Dispatched(CleanWord)
    /\ \E order \in Orders(CleanNames(files)) : \E bad \in BadSets : \E toolOk \in BOOLEAN :
          Returned("clean", clean_repo(files, index, order, bad, toolOk), << >>,
                   Tail(stdin))
    /\ added' = {}
    /\ removed' = {}

Status ==
    /\ Dispatched(StatusWord)
    /\ \E du, df \in { "ok", "fail", "missing", "short" } :
          Returned("status", show_status(files, index, du, df), << >>, Tail(stdin))
    /\ UNCHANGED << added, removed >>

Help ==
    /\ Dispatched(HelpWord)
    /\ Returned("help", Outcome(files, index, TRUE, "Available commands:"), << >>,
                Tail(stdin))
    /\ UNCHANGED << added, removed >>

\* the lines of rest before the first EOF line, all of them if there is none
DataLines(rest) ==
    LET eofs == { i \in 1..Len(rest) : rest[i] = EOFLine }
    IN  IF eofs = {} THEN rest
        ELSE SubSeq(rest, 1, (CHOOSE i \in eofs : \A j \in eofs : i <= j) - 1)

\* the lines of rest after the first EOF line, none if there is none
AfterData(rest) ==
    LET eofs == { i \in 1..Len(rest) : rest[i] = EOFLine }
    IN  IF eofs = {} THEN << >>
        ELSE From(rest, (CHOOSE i \in eofs : \A j \in eofs : i <= j) + 1)

\* receive_file as a fault would have it: the end of the stream inside the
\* data block is not noticed and the handler waits for the EOF line
ReceiveWaitsForSentinel ==
    /\ Dispatched(ReceiveWord)
    /\ LET filename == ArgsOf(CmdInput)
           rest     == Tail(stdin)
       IN  IF filename = << >>
           THEN Returned("receive",
                         receive_file(files, index, cwd, filename, << >>, TRUE, "ok",
                                      TRUE),
                         << >>, rest)
           ELSE /\ \E i \in 1..Len(rest) : rest[i] = EOFLine
                /\ \E openOk, unlinkOk \in BOOLEAN : \E du \in { "ok", "fail", "missing" } :
                      Returned("receive",
                               receive_file(files, index, cwd, filename,
                                            DataLines(rest), openOk, du, unlinkOk),
                               OutputPath(cwd, filename), AfterData(rest))
    /\ UNCHANGED << added, removed >>

\* receive_file reads its data with input() until the EOF line, or until
\* the stream ends (EOFError); without a file name it reads nothing
Receive ==
    /\ Dispatched(ReceiveWord)
    /\ LET filename == ArgsOf(CmdInput)
           rest     == Tail(stdin)
       IN  IF filename = << >>
           THEN Returned("receive",
                         receive_file(files, index, cwd, filename, << >>, TRUE, "ok",
                                      TRUE),
                         << >>, rest)
           ELSE /\ (\E i \in 1..Len(rest) : rest[i] = EOFLine) \/ closed
                /\ \E openOk, unlinkOk \in BOOLEAN : \E du \in { "ok", "fail", "missing" } :
                      Returned("receive",
                               receive_file(files, index, cwd, filename,
                                            DataLines(rest), openOk, du, unlinkOk),
                               OutputPath(cwd, filename), AfterData(rest))
    /\ UNCHANGED << added, removed >>

\* exit, quit, logout: process_command returns None; main_loop leaves its
\* loop, process_stdin ignores the value and reads on
Exit ==
    /\ \E v \in { ExitWord, QuitWord, LogoutWord } : Dispatched(v)
    /\ running' = (mode # "interactive")
    /\ stdin' = Tail(stdin)
    /\ last' = [ NoCommand EXCEPT !.verb = "exit", !.args = ArgsOf(CmdInput),
                                  !.marker = "Logging out..." ]
    /\ \E logOk \in LogOutcomes : history' = Logged(logOk)
    /\ UNCHANGED << files, index, cwd, mode, closed, sends, sent, added, removed >>

KnownVerbs ==
    { AddWord, RemoveWord, ListWord, CleanWord, StatusWord, ReceiveWord, SendWord,
      ErrorsWord, HelpWord, ExitWord, QuitWord, LogoutWord }

\* send: process_command calls send_file
SendFile ==
    /\ Dispatched(SendWord)
    /\ \E du \in { "ok", "fail", "missing" } : \E readOk \in BOOLEAN :
          Returned("send", send_file(files, index, cwd, ArgsOf(CmdInput), du, readOk),
                   << >>, Tail(stdin))
    /\ UNCHANGED << added, removed >>

\* errors: process_command calls show_recent_errors
Errors ==
    /\ Dispatched(ErrorsWord)
    /\ \E log \in { "empty", "readable", "unreadable" } :
          Returned("errors", show_recent_errors(files, index, log), << >>, Tail(stdin))
    /\ UNCHANGED << added, removed >>

\* the unknown command as a fault would have it: it ends the loop
UnknownEndsSession ==
    /\ running /\ stdin # << >> /\ ~Skipped
    /\ VerbOf(CmdInput) \notin KnownVerbs
    /\ running' = FALSE
    /\ stdin' = Tail(stdin)
    /\ last' = [ NoCommand EXCEPT !.verb = "unknown", !.args = ArgsOf(CmdInput),
                                  !.marker = "Unknown command" ]
    /\ UNCHANGED << files, index, cwd, mode, closed, sends, sent, added, removed,
                    history >>

Unknown ==
    /\ running /\ stdin # << >> /\ ~Skipped
    /\ VerbOf(CmdInput) \notin KnownVerbs
    /\ Returned("unknown", Outcome(files, index, FALSE, "Unknown command"), << >>,
                Tail(stdin))
    /\ UNCHANGED << added, removed >>

\* the stream has ended: EOFError in main_loop, the end of the for loop in
\* process_stdin
EndOfInput ==
    /\ running /\ stdin = << >> /\ closed
    /\ running' = FALSE
    /\ UNCHANGED << files, index, cwd, mode, stdin, closed, sends, sent, last,
                    added, removed, history >>

Next ==
    \/ ClientSend
    \/ SkipLine
    \/ Add
    \/ Remove
    \/ List
    \/ Clean
    \/ Status
    \/ Help
    \/ Receive
    \/ Exit
    \/ Unknown
    \/ EndOfInput

Spec == Init /\ [][Next]_vars

-----------------------------------------------------------------------------
(* Repository sessions: the repository commands alone, on a repository with *)
(* the upload file staged by an earlier receive                             *)

InitRepoSession ==
    /\ \E S \in SUBSET PkgFiles : \E T \in { {}, S } :
          /\ files = DirWith(repo_dir, S, T) @@ DirWith(upload_dir, { Upfile }, { Upfile })
          /\ index = S
    /\ cwd = home_dir
    /\ mode = "stdin"
    /\ InitSession

\* what the client of a repository session can send next
RepoInputs ==
    { Sending(<< l >>, FALSE, NoPayload, << >>) : l \in RepoCommands }
    \cup { Sending(<< CleanWord, CleanWord >>, FALSE, NoPayload, << >>) }

RepoSend == Send(RepoInputs)

NextRepo == RepoSend \/ Add \/ Remove \/ List \/ Clean

SpecRepo == InitRepoSession /\ [][NextRepo]_vars

-----------------------------------------------------------------------------
(* Upload sessions: the client encodes one payload and the shell receives   *)
(* it                                                                       *)

InitCodec ==
    /\ files = DirWith(repo_dir, {}, {})
    /\ index = {}
    /\ cwd = home_dir
    /\ mode = "stdin"
    /\ InitSession

\* file names that lead out of the staging directory: with .. components,
\* and an absolute path
OutsideNames ==
    { << ".", ".", "/", ".", ".", "/", "r", "/", "f" >>, PathJoin(repo_dir, Upfile) }

\* the uploads of a payload: by ArchRepoClient._encode_and_send_file, and by
\* src/archrepo.py; and uploads under the file names that lead outside
CodecInputs ==
    { Sending(EncodeAndSendFile(p, Upfile), FALSE, p, Upfile) : p \in CodecPayloads }
    \cup { Sending(PlainUpload(p, Upfile), FALSE, p, Upfile) : p \in CodecPayloads }
    \cup { Sending(PlainUpload(PayloadHi, n), FALSE, PayloadHi, n) : n \in OutsideNames }

\* the client uploads one file
Upload ==
    /\ sends = 0
    /\ Send(CodecInputs)

NextCodec == Upload \/ Receive

SpecCodec == InitCodec /\ [][NextCodec]_vars

-----------------------------------------------------------------------------
(* Dispatch sessions: every verb of the shell, in both modes, on a          *)
(* repository that holds the upload file                                    *)

InitLoop ==
    /\ files = DirWith(repo_dir, { Upfile }, { Upfile })
    /\ index = { Upfile }
    /\ cwd = home_dir
    /\ mode \in { "interactive", "stdin" }
    /\ InitSession

\* the command lines of a dispatch session
LoopCommands ==
    { FrobWord, ListWord, CleanWord, StatusWord, HelpWord, ErrorsWord,
      ExitWord, QuitWord, LogoutWord,
      AddWord, Cmd(AddWord, << "n", "o" >>), RemoveWord,
      SendWord, Cmd(SendWord, Upfile), << >> }

\* what the client of a dispatch session can send next
LoopInputs ==
    { Sending(<< l >>, FALSE, NoPayload, << >>) : l \in LoopCommands }
    \cup { Sending(PlainUpload(PayloadHi, Upfile), FALSE, PayloadHi, Upfile),
           Sending(<< Cmd(ReceiveWord, Upfile), << "a", "G", "k", "=" >> >>, TRUE,
                   NoPayload, Upfile),
           Sending(<< >>, TRUE, NoPayload, << >>) }

LoopSend == Send(LoopInputs)

NextLoop ==
    \/ LoopSend
    \/ SkipLine
    \/ Add
    \/ Remove
    \/ List
    \/ Clean
    \/ Status
    \/ Help
    \/ Receive
    \/ SendFile
    \/ Errors
    \/ Exit
    \/ Unknown
    \/ EndOfInput

SpecLoop == InitLoop /\ [][NextLoop]_vars

-----------------------------------------------------------------------------
(* Stream sessions: process_stdin reading a stream that the client closes,  *)
(* with the fairness of a program that runs on while it can                 *)

\* the file of the stream sessions' uploads
Shortfile == << "f" >>

InitStream ==
    /\ files = DirWith(repo_dir, { Upfile }, {})
    /\ index = { Upfile }
    /\ cwd = home_dir
    /\ mode = "stdin"
    /\ InitSession

\* what the client of a stream session can send next: lines that leave the
\* stream open, and last lines after which it closes the stream
StreamInputs ==
    { Sending(<< ListWord >>, FALSE, NoPayload, << >>),
      Sending(<< QuitWord, ListWord >>, FALSE, NoPayload, << >>),
      Sending(PlainUpload(PayloadHi, Shortfile), FALSE, PayloadHi, Shortfile),
      Sending(<< ExitWord >>, TRUE, NoPayload, << >>),
      Sending(<< FrobWord >>, TRUE, NoPayload, << >>),
      \* data that is no base64 text
      Sending(<< Cmd(ReceiveWord, Shortfile), << "a" >>, EOFLine >>, FALSE, NoPayload,
              Shortfile),
      \* a receive without file name, followed by a data block
      Sending(<< ReceiveWord, << "a", "G", "k", "=" >>, EOFLine >>, TRUE, NoPayload,
              << >>),
      \* the stream ends inside the data block
      Sending(<< Cmd(ReceiveWord, Shortfile), << "a", "G", "k", "=" >> >>, TRUE,
              NoPayload, Shortfile),
      \* the stream ends
      Sending(<< >>, TRUE, NoPayload, << >>) }

StreamSend == Send(StreamInputs)

\* a step of the shell: the loop of process_stdin runs on whenever a line
\* or the end of the stream is there to be read
ShellStep ==
    \/ SkipLine
    \/ List
    \/ Receive
    \/ Exit
    \/ Unknown
    \/ EndOfInput

NextStream == StreamSend \/ ShellStep

\* the shell does not halt without cause; the client need not send anything
SpecStream == InitStream /\ [][NextStream]_vars /\ WF_vars(ShellStep)

-----------------------------------------------------------------------------
(* Add sessions: the upload file in the repository, in the staging          *)
(* directory or in the home directory, with or without a staged signature   *)

InitAdd ==
    /\ \E inRepo, staged, sig, inHome \in BOOLEAN :
          /\ files = DirWith(repo_dir, IF inRepo THEN { Upfile } ELSE {}, {})
                        @@ DirWith(upload_dir, IF staged THEN { Upfile } ELSE {},
                                   IF sig THEN { Upfile } ELSE {})
                        @@ DirWith(home_dir, IF inHome THEN { Upfile } ELSE {}, {})
          /\ index = IF inRepo THEN { Upfile } ELSE {}
    /\ cwd \in { home_dir, upload_dir }
    /\ mode = "stdin"
    /\ InitSession

\* the command lines of an add session
AddCommands ==
    { Cmd(AddWord, Upfile), Cmd(AddWord, PathJoin(upload_dir, Upfile)),
      Cmd(AddWord, << "n", "o" >>), AddWord, ListWord }

\* what the client of an add session can send next
AddInputs == { Sending(<< l >>, FALSE, NoPayload, << >>) : l \in AddCommands }

AddSend == Send(AddInputs)

NextAdd == AddSend \/ Add \/ List

SpecAdd == InitAdd /\ [][NextAdd]_vars

-----------------------------------------------------------------------------
(* The properties *)

\* the package files in the repository directory
RepoPkgFiles(fs) == Glob(fs, repo_dir, << >>, pkg_ext)

\* the package files of package n in the repository directory
VersionsOf(fs, n) == { f \in RepoPkgFiles(fs) : EntryName(f) = n }

\* the files named <n>-*.pkg.tar.zst and <n>-*.pkg.tar.zst.sig in the
\* repository directory
FilesMatching(fs, n) ==
    Glob(fs, repo_dir, n \o << "-" >>, pkg_ext)
    \cup Glob(fs, repo_dir, n \o << "-" >>, pkg_ext \o sig_ext)

\* the listing printed last has an entry of package n
Listed(n) ==
    \E line \in last.listing :
        LET parts == SplitOn(line, " ") IN Len(parts) >= 2 /\ parts[2] = n

\* the step is a clean that returns success without a failed deletion
CleanStep ==
    /\ Dispatched(CleanWord)
    /\ last'.verb = "clean" /\ last'.ok /\ last'.warned = {}

\* the shell has just executed the upload the client sent last
ReceivedLast ==
    /\ last.verb = "receive"
    /\ stdin = << >>
    /\ sent.filename # << >>
    /\ sent.lines # << >>
    /\ Head(sent.lines) = Cmd(ReceiveWord, last.args)

\* C1: after a successful add, remove or clean (none of whose deletions
\* failed) the index has an entry for exactly the package files in the
\* repository directory.
C1_IndexMatchesFiles ==
    (last.verb \in { "add", "remove", "clean" } /\ last.ok /\ last.warned = {})
        => index = RepoPkgFiles(files)

\* C2: an add of the bare file name F that follows a successful receive of F
\* finds the file in the staging directory from any working directory: it
\* succeeds unless cp or repo-add fails, and after it F is in the repository
\* directory.
C2_AddFindsReceivedFile ==
    [][ ( /\ last.verb = "receive" /\ last.ok
          /\ Dispatched(AddWord)
          /\ ArgsOf(CmdInput) = last.args )
        => ( /\ last'.ok \/ last'.marker \in { "Failed to copy package to repository",
                                                "Error adding package to repository" }
             /\ last'.ok => PathJoin(repo_dir, last.args) \in DOMAIN files' ) ]_vars

C4_RemoveLeavesNothing ==
    /\ (last.verb = "remove" /\ last.ok) => FilesMatching(files, last.args) = {}
    /\ (last.verb = "list" /\ last.ok) => \A n \in removed : ~Listed(n)

\* C4 as amended: a successful remove of N leaves in the repository
\* directory no file named <N>-*.pkg.tar.zst or <N>-*.pkg.tar.zst.sig but
\* those whose deletion failed, about which it warns, and a following list
\* has no entry of N.
C4_RemoveLeavesWarned ==
    /\ (last.verb = "remove" /\ last.ok) => FilesMatching(files, last.args) = last.warned
    /\ (last.verb = "list" /\ last.ok) => \A n \in removed : ~Listed(n)

C4_Witness ==
    /\ last.verb = "list" /\ last.ok
    /\ foo \in removed
    /\ FilesMatching(files, foo) = {}
    /\ last.listing # {}

\* C5: a successful clean (none of whose deletions failed) retains, of each
\* package that had at least one version, exactly the highest-sorting
\* version, with its signature if it had one, deletes the other versions
\* and their signatures, and reports the number of versions deleted.
C5_CleanKeepsNewest ==
    [][ CleanStep =>
        /\ \A n \in PkgNames :
              LET before == VersionsOf(files, n)
              IN  before # {} =>
                    /\ VersionsOf(files', n) = { MaxStr(before) }
                    /\ \A f \in before :
                          PathJoin(repo_dir, f \o sig_ext) \in DOMAIN files'
                            <=> ( /\ f = MaxStr(before)
                                  /\ PathJoin(repo_dir, f \o sig_ext) \in DOMAIN files )
        /\ last'.count = Cardinality(RepoPkgFiles(files))
                           - Cardinality({ n \in PkgNames : VersionsOf(files, n) # {} })
      ]_vars

\* C6: a successful clean (none of whose deletions failed) deletes nothing
\* of a package that has a single version, also when another package's name
\* begins with that package's name.
C6_CleanSparesSingleVersion ==
    [][ CleanStep =>
        \A n \in PkgNames :
            Cardinality(VersionsOf(files, n)) = 1
                => VersionsOf(files', n) = VersionsOf(files, n) ]_vars

\* C7: what a successful receive stores is what the client encoded: decoding
\* the base64 text, cut into lines of 76 characters and joined again, gives
\* back the bytes.
C7_UploadRoundTrip ==
    (last.verb = "receive" /\ last.ok) => files[last.path] = sent.payload

C7_Witness ==
    /\ last.verb = "receive" /\ last.ok
    /\ Len(sent.payload) > 57
    /\ Len(sent.lines) > 3
    /\ files[last.path] = sent.payload

\* C8: a successful receive stores the upload under the file name the
\* client gave, in the staging directory, with or without an expected hash
\* after the name.
C8_ReceiveNamesFile ==
    (ReceivedLast /\ last.ok) => last.path = PathJoin(upload_dir, sent.filename)

\* the expected hash given after the file name of the last receive
ExpectedHash == ArgsOf(last.args)

\* C9: a receive whose expected hash is not the digest of the uploaded
\* bytes fails and leaves no file.
C9_HashMismatchRejected ==
    ( /\ ReceivedLast
      /\ sent.payload # NoPayload
      /\ ExpectedHash # << >>
      /\ ExpectedHash # Sha512Hex(sent.payload) )
        => ( /\ ~last.ok
             /\ last.path \notin DOMAIN files
             /\ PathJoin(upload_dir, sent.filename) \notin DOMAIN files )

\* C10: a receive whose data is not valid base64 fails and writes no file:
\* it creates none and truncates none.
C10_InvalidBase64WritesNothing ==
    [][ ( /\ Dispatched(ReceiveWord)
          /\ ArgsOf(CmdInput) # << >>
          /\ ~B64Decode(JoinLines(DataLines(Tail(stdin)))).ok
          /\ last'.verb = "receive" )
        => ( ~last'.ok /\ files' = files ) ]_vars

\* the verbs that end a session
ExitVerbs == { ExitWord, QuitWord, LogoutWord }

\* C11: in both modes, the step that reads a line whose verb is exit, quit
\* or logout ends the session, so that no later line is parsed or executed.
C11_ExitEndsSession ==
    [][ ( /\ running /\ stdin # << >>
          /\ CmdInput # << >>
          /\ VerbOf(CmdInput) \in ExitVerbs )
        => ~running' ]_vars

\* C12: the command history never holds a line whose verb is exit, quit or
\* logout, and in non-interactive mode too it holds the command executed
\* last.
C12_HistoryHoldsCommands ==
    /\ \A i \in 1..Len(history) : VerbOf(history[i]) \notin ExitVerbs
    /\ (mode = "stdin" /\ last.verb \notin { "none", "exit" }) => history # << >>

\* C13: an unknown verb makes the dispatcher return failure, changes no
\* file of the repository directory or the staging directory and not the
\* index, and leaves the session open to read the next line.
C13_UnknownVerbKeepsSession ==
    [][ ( /\ running /\ stdin # << >> /\ ~Skipped
          /\ VerbOf(CmdInput) \notin KnownVerbs )
        => ( /\ files' = files /\ index' = index
             /\ last'.verb = "unknown" /\ ~last'.ok
             /\ running'
             /\ stdin' = Tail(stdin) ) ]_vars

C13_Witness ==
    /\ running
    /\ Len(history) = 2
    /\ VerbOf(history[1]) = FrobWord
    /\ last.verb = "list" /\ last.ok

\* C14: the session ends only at the end of the input or on an exit verb:
\* a command that returns failure leaves the loop running, with the lines
\* after the command still to be read.
C14_FailureKeepsSession ==
    [][ /\ (running /\ ~running')
            => \/ stdin = << >> /\ closed
               \/ stdin # << >> /\ VerbOf(CmdInput) \in ExitVerbs
        /\ (last' # last /\ last'.verb \notin { "exit", "receive" })
            => stdin' = Tail(stdin) ]_vars

C14_Witness ==
    /\ running
    /\ Len(history) = 2
    /\ history[1] = AddWord
    /\ last.verb = "list" /\ last.ok

\* the file an add of the path p puts into the repository directory
RepoPathOf(p) == PathJoin(repo_dir, Basename(p))

\* the step is an add of a file that is neither in the staging directory
\* nor in the repository directory
AddOfUnstagedFile ==
    /\ Dispatched(AddWord)
    /\ ArgsOf(CmdInput) # << >>
    /\ PathJoin(upload_dir, Basename(ArgsOf(CmdInput))) \notin DOMAIN files
    /\ RepoPathOf(ArgsOf(CmdInput)) \notin DOMAIN files

\* C15: an add of a file that is neither in the staging directory nor in
\* the repository directory reports 'not found'; it and an add without
\* argument change no file and leave the index as it is.
C15_AddReportsNotFound ==
    [][ /\ AddOfUnstagedFile
            => ( /\ last'.marker = "Package file not found"
                 /\ files' = files /\ index' = index )
        /\ (Dispatched(AddWord) /\ ArgsOf(CmdInput) = << >>)
            => ( /\ ~last'.ok
                 /\ files' = files /\ index' = index ) ]_vars

\* C16: a successful add of a file that was not in the repository directory
\* has moved it: the file is in the repository directory and no longer at
\* the path it was added from.
C16_AddMovesFile ==
    [][ ( /\ Dispatched(AddWord)
          /\ RepoPathOf(ArgsOf(CmdInput)) \notin DOMAIN files
          /\ last'.verb = "add" /\ last'.ok )
        => ( /\ RepoPathOf(ArgsOf(CmdInput)) \in DOMAIN files'
             /\ Resolve(cwd, ArgsOf(CmdInput)) \notin DOMAIN files' ) ]_vars

\* the bytes begin as a zstd frame does
IsArchive(content) ==
    Len(content) >= 4 /\ SubSeq(content, 1, 4) = << 40, 181, 47, 253 >>

\* the file an add of the path p registers: the one in the repository
\* directory if there is one, else the one at p
CandidateOf(p) ==
    IF RepoPathOf(p) \in DOMAIN files THEN RepoPathOf(p) ELSE Resolve(cwd, p)

\* C17: an add of a file that is no well-formed archive fails before the
\* index tool is called: the index is unchanged and neither the tool's
\* success nor the tool's failure is reported.
C17_AddRejectsInvalidArchive ==
    [][ ( /\ Dispatched(AddWord)
          /\ ArgsOf(CmdInput) # << >>
          /\ CandidateOf(ArgsOf(CmdInput)) \in DOMAIN files
          /\ ~IsArchive(files[CandidateOf(ArgsOf(CmdInput))]) )
        => ( /\ ~last'.ok
             /\ index' = index
             /\ last'.marker \notin { "Package added successfully.",
                                       "Error adding package to repository" } ) ]_vars

\* C18: whether the signature's copy succeeds or fails changes neither the
\* success flag of an add, nor its report, nor the index; an add that
\* warned about the signature and whose repo-add did not fail reports
\* success.
C18_AddIgnoresSignature ==
    /\ Dispatched(AddWord)
         => \A cpOk, toolOk \in BOOLEAN :
               LET a == add_package(files, index, cwd, ArgsOf(CmdInput), cpOk, TRUE, toolOk)
                   b == add_package(files, index, cwd, ArgsOf(CmdInput), cpOk, FALSE, toolOk)
               IN  a.ok = b.ok /\ a.marker = b.marker /\ a.idx = b.idx
    /\ ( /\ last.verb = "add" /\ last.warned # {}
          /\ last.marker # "Error adding package to repository" )
         => ( last.ok /\ Basename(last.args) \in index )

C18_Witness ==
    /\ last.verb = "add" /\ last.ok
    /\ last.warned = { Upfile \o sig_ext }
    /\ RepoPathOf(Upfile) \in DOMAIN files
    /\ RepoPathOf(Upfile \o sig_ext) \notin DOMAIN files

\* C19: an add whose repo-add fails reports failure and takes nothing
\* back: the package file is in the repository directory, with the
\* signature if this add copied one, every file that was there is as it
\* was, and the index is unchanged.
C19_AddFailureKeepsFiles ==
    [][ ( /\ Dispatched(AddWord)
          /\ last'.marker = "Error adding package to repository" )
        => ( /\ ~last'.ok
             /\ index' = index
             /\ RepoPathOf(ArgsOf(CmdInput)) \in DOMAIN files'
             /\ \A p \in DOMAIN files : p \in DOMAIN files' /\ files'[p] = files[p]
             /\ ( /\ RepoPathOf(ArgsOf(CmdInput)) \notin DOMAIN files
                   /\ last'.warned = {}
                   /\ \/ IsFile(files, cwd, ArgsOf(CmdInput) \o sig_ext)
                      \/ IsFile(files, cwd, PathJoin(upload_dir,
                                     Basename(ArgsOf(CmdInput)) \o sig_ext)) )
                 => RepoPathOf(ArgsOf(CmdInput) \o sig_ext) \in DOMAIN files' ) ]_vars

C19_Witness ==
    /\ last.verb = "add"
    /\ last.marker = "Error adding package to repository"
    /\ RepoPathOf(Upfile) \in DOMAIN files
    /\ RepoPathOf(Upfile \o sig_ext) \in DOMAIN files
    /\ Upfile \notin index

\* C20: a remove of a name that no index entry has reports 'not found',
\* unless the query itself fails, and changes neither the files nor the
\* index: repo-remove is not called.
C20_RemoveReportsNotFound ==
    [][ ( /\ Dispatched(RemoveWord)
          /\ ArgsOf(CmdInput) # << >>
          /\ ~RepoHas(index, ArgsOf(CmdInput))
          /\ last'.marker # "Error checking repository contents" )
        => ( /\ last'.marker = "Package not found in repository"
             /\ files' = files /\ index' = index ) ]_vars

\* C21: a remove whose repo-remove took the entry out of the index reports
\* success, also when no package file of that name was in the repository
\* directory and when a file could not be deleted.
C21_RemoveWarnsOnly ==
    [][ ( /\ Dispatched(RemoveWord)
          /\ RepoHas(index, ArgsOf(CmdInput))
          /\ index' = RepoRemove(index, ArgsOf(CmdInput)) )
        => ( /\ last'.ok
             /\ last'.marker = "Package removed successfully." ) ]_vars

\* a remove succeeded that found no file to delete
C21_Witness ==
    /\ last.verb = "remove" /\ last.ok
    /\ last.count = 0 /\ last.warned = {}
    /\ ~RepoHas(index, last.args)

\* C22: every clean calls repo-add -f once, with exactly the package files
\* that are in the repository directory after its deletions, also when none
\* is left and when nothing was deleted; when the call succeeds the index
\* holds exactly these files, when it fails the index is as it was.
C22_CleanRebuildsOnce ==
    [][ Dispatched(CleanWord)
        => ( /\ last'.verb = "clean"
             /\ last'.rebuilt = << RepoPkgFiles(files') >>
             /\ last'.ok => index' = RepoPkgFiles(files')
             /\ ~last'.ok => index' = index ) ]_vars

\* a clean that followed a remove deleted nothing, found no package file,
\* only a signature the remove could not delete, and built an empty index
C22_Witness ==
    /\ last.verb = "clean" /\ last.ok
    /\ last.count = 0
    /\ last.rebuilt = << {} >>
    /\ index = {}
    /\ PathJoin(repo_dir, PkgFileName(foo, 0) \o sig_ext) \in DOMAIN files

\* C23: a status returns success under the 'Repository Status:' header
\* whatever its probes do: exit non-zero, cannot be started, or print too
\* few fields.
C23_StatusAlwaysSucceeds ==
    [][ Dispatched(StatusWord)
        => ( /\ last'.verb = "status"
             /\ last'.ok
             /\ last'.marker = "Repository Status:" ) ]_vars

\* C24: a status, a list and a help leave every file and the index as
\* they were, whether they succeed or fail.
C24_QueriesChangeNothing ==
    [][ ( \/ Dispatched(StatusWord)
          \/ Dispatched(ListWord)
          \/ Dispatched(HelpWord) )
        => ( /\ last'.verb \in { "status", "list", "help" }
             /\ files' = files
             /\ index' = index ) ]_vars

\* a status and a list have run, the last of them failing, on a repository
\* that holds a registered package with its signature
C24_Witness ==
    /\ last.verb \in { "status", "list" } /\ ~last.ok
    /\ Len(history) = 2
    /\ { VerbOf(history[1]), VerbOf(history[2]) } = { StatusWord, ListWord }
    /\ index = { Upfile }
    /\ PathJoin(repo_dir, Upfile) \in DOMAIN files
    /\ PathJoin(repo_dir, Upfile \o sig_ext) \in DOMAIN files

\* the step is a receive that returns
ReceiveStep == Dispatched(ReceiveWord) /\ Len(stdin') < Len(stdin)

\* C25 as stated: when a receive returns, however it ends, no temporary
\* file that it created exists.
C25_NoTempFileLeft ==
    [][ ReceiveStep => TempFiles(files') \subseteq TempFiles(files) ]_vars

\* C25 as amended: when a receive returns, however it ends, no temporary
\* file that it created exists but one whose deletion failed, about which
\* it logs a warning.
C25_TempFileLeftIsWarned ==
    [][ ReceiveStep
        => ( /\ last'.verb = "receive"
             /\ TempFiles(files') \ TempFiles(files) = last'.warned
             /\ TempFiles(files) \subseteq TempFiles(files') ) ]_vars

\* a receive that failed has removed its temporary file, next to the one
\* an earlier receive could not delete
C25_Witness ==
    /\ last.verb = "receive" /\ ~last.ok
    /\ last.marker = "Error receiving file"
    /\ last.warned = {}
    /\ Cardinality(TempFiles(files)) = 1

\* C26: in non-interactive mode, once the client has closed the stream the
\* shell reads what is left and stops, also when the stream ends inside
\* the data block of a receive.
C26_StdinSessionTerminates ==
    (mode = "stdin" /\ closed) ~> (~running /\ stdin = << >>)

\* the session has ended after a receive whose data block the end of the
\* stream cut short
C26_Witness ==
    /\ mode = "stdin" /\ closed /\ ~running
    /\ stdin = << >>
    /\ last.verb = "receive"
    /\ sent.lines # << >> /\ Head(sent.lines) = Cmd(ReceiveWord, Shortfile)
    /\ \A i \in 1..Len(sent.lines) : sent.lines[i] # EOFLine

\* C27: the client's list_packages returns one entry for each line that a
\* successful list of the shell printed for an index entry, so every
\* package added is among them by name.
C27_ClientListsEntries ==
    (last.verb = "list" /\ last.ok)
        => LET packages == ArchRepoClient_list_packages(last.listing)
           IN  /\ Cardinality(packages) = Cardinality(last.listing)
               /\ \A n \in added : \E e \in packages : e.name = n

\* C28: the number a successful clean reports is the number of package
\* files it deleted from the repository directory, also when a signature
\* could not be deleted after its package file was.
C28_CleanCountsDeletions ==
    [][ ( /\ Dispatched(CleanWord)
          /\ last'.verb = "clean" /\ last'.ok )
        => last'.count = Cardinality(RepoPkgFiles(files))
                           - Cardinality(RepoPkgFiles(files')) ]_vars

\* the package that the file named f, a package file or a signature,
\* belongs to
PackageOf(f) ==
    EntryName(IF EndsWith(f, sig_ext) THEN Take(f, Len(f) - Len(sig_ext)) ELSE f)

\* C29: a remove of a name deletes only files of the package of that name:
\* the package file and the signature of a package whose name begins with
\* the name and '-' are still there after it.
C29_RemoveDeletesOwnFiles ==
    [][ Dispatched(RemoveWord)
        => \A p \in DOMAIN files \ DOMAIN files' :
              PackageOf(Basename(p)) = ArgsOf(CmdInput) ]_vars

\* C30: a receive, whatever its outcome, leaves of the input only what
\* follows the EOF line of its data block, so that no line of the block is
\* dispatched as a command.
C30_ReceiveConsumesBlock ==
    [][ ReceiveStep => stdin' = AfterData(Tail(stdin)) ]_vars

\* the data block of the receive about to run has its EOF line
SentinelRead == \E i \in 1..Len(Tail(stdin)) : Tail(stdin)[i] = EOFLine

\* C31: a receive whose input ends before a line equal to EOF was read
\* writes no file and reports no success for the data it got.
C31_NoCommitWithoutSentinel ==
    [][ (ReceiveStep /\ ~SentinelRead)
        => ( /\ ~last'.ok
             /\ \A q \in DOMAIN files' :
                   (q \in DOMAIN files /\ files'[q] = files[q]) \/ q \in last'.warned ) ]_vars

\* the lines of base64 text that the client sent with the upload, between
\* its receive line and its EOF line
SentLines == SubSeq(sent.lines, 2, Len(sent.lines) - 1)

\* C32: no line of base64 text that the client's encoder sends, the
\* shorter last one included, is the line EOF, so a receive reads every
\* one of them and stops at the EOF line that the client sent last.
C32_NoChunkIsSentinel ==
    [][ ReceiveStep
        => ( /\ SentLines = Chunks(B64Encode(sent.payload), chunk_size)
             /\ \A i \in 1..Len(SentLines) : SentLines[i] # EOFLine
             /\ DataLines(Tail(stdin)) = SentLines
             /\ stdin' = << >> ) ]_vars

\* a receive has stored a payload whose base64 text has the letters EOF at
\* the start of a line or at the end of the last one
C32_Witness ==
    /\ last.verb = "receive" /\ last.ok
    /\ sent.payload \in SentinelPayloads
    /\ \E i \in 1..Len(SentLines) :
          \/ Take(SentLines[i], 3) = EOFLine
          \/ From(SentLines[i], Len(SentLines[i]) - 2) = EOFLine
    /\ files[last.path] = sent.payload

\* the files that a step created or whose content it changed
Touched == { q \in DOMAIN files' : q \notin DOMAIN files \/ files'[q] # files[q] }

\* C33: whatever file name a receive is given, every file that it creates
\* or overwrites (other than its temporary file) lies in the staging
\* directory; no file of the repository directory or of another directory
\* is written.
C33_ReceiveWritesStagingOnly ==
    [][ ReceiveStep
        => \A q \in Touched \ TempFiles(files') :
              StartsWith(q, upload_dir \o << "/" >>) ]_vars

\* C34: a remove whose repo-remove exits non-zero reports failure and
\* deletes no file; a remove deletes files only when repo-remove has
\* taken the package out of the index.
C34_RemoveFailureDeletesNothing ==
    [][ Dispatched(RemoveWord)
        => ( /\ last'.verb = "remove"
             /\ last'.marker = "Error removing package"
                   => (~last'.ok /\ files' = files /\ index' = index)
             /\ files' # files
                   => (last'.ok /\ index' = RepoRemove(index, ArgsOf(CmdInput))) ) ]_vars

\* a remove has failed in repo-remove, and the package is still registered
\* with its file in the repository directory
C34_Witness ==
    /\ last.verb = "remove" /\ ~last.ok
    /\ last.marker = "Error removing package"
    /\ RepoHas(index, last.args)
    /\ Glob(files, repo_dir, last.args \o << "-" >>, pkg_ext) # {}

\* the step is an add of the file whose add was the last command and
\* succeeded
SecondAdd ==
    /\ Dispatched(AddWord)
    /\ last.verb = "add" /\ last.ok
    /\ last.args = ArgsOf(CmdInput)

SecondClean ==
    /\ Dispatched(CleanWord)
    /\ last.verb = "clean" /\ last.ok

C37_CleanOrderIrrelevant ==
    Dispatched(CleanWord)
        => \A bad \in BadSets : \A toolOk \in BOOLEAN :
              LET first == CHOOSE o \in Orders(CleanNames(files)) : TRUE
                  r1    == clean_repo(files, index, first, bad, toolOk)
              IN  \A o2 \in Orders(CleanNames(files)) :
                     LET r2 == clean_repo(files, index, o2, bad, toolOk)
                     IN  /\ r1.fs = r2.fs
                         /\ r1.count = r2.count
                         /\ r1.ok = r2.ok /\ r1.idx = r2.idx

\* a clean has removed both versions of foo and left the file of foo-bar:
\* it ran on the package names foo and foo-bar, in one of two orders
C37_Witness ==
    /\ last.verb = "clean" /\ last.ok
    /\ last.count = NumVersions
    /\ RepoPkgFiles(files) = { PkgFileName(foo_bar, 0) }

====
